---- MODULE Spec2Model ----
(***************************************************************************)
(* Model of the batched, concurrent translation pipeline of               *)
(* TranslatorClient (lib/client/translator-client.ts): the response       *)
(* parser, the batch scheduler with its retry logic, and cancellation.    *)
(*                                                                         *)
(* A text is a sequence of one-character strings.                          *)
(***************************************************************************)
EXTENDS Integers, Sequences, FiniteSets, TLC

(***************************************************************************)
(* Bounds of the exploration.                                              *)
(***************************************************************************)
\* longest raw response explored by the parser specification
MaxRawLen == 4
\* largest expectedCount explored by the parser specification
MaxExpected == 3
\* largest number of input texts of a run
MaxTexts == 3

(***************************************************************************)
(* Characters.                                                             *)
(***************************************************************************)
NL == "\n"
SP == " "
DOT == "."
\* \d of the regular expressions
Digits == {"0", "1", "2", "3", "4", "5", "6", "7", "8", "9"}
\* line terminators of a JavaScript regular expression ('.', '^' and '$' with /m)
LineTerminators == {NL, "\r"}
\* \s of the regular expressions, and what String.prototype.trim removes
WhiteSpace == {SP, "\t", NL, "\r"}

\* the characters raw responses are built from in the parser specification
Alphabet == {"1", "2", DOT, SP, NL, "a"}

(***************************************************************************)
(* String helpers (String.prototype.trim, split('\n'), slice).             *)
(***************************************************************************)
Min(a, b) == IF a < b THEN a ELSE b

\* s.slice(from) with a 1-based index
Drop(s, n) == SubSeq(s, n + 1, Len(s))

\* number of leading characters of s, from 1-based position p, that are in set S
RECURSIVE RunLen(_, _, _)
RunLen(s, p, S) ==
  IF p <= Len(s) /\ s[p] \in S THEN 1 + RunLen(s, p + 1, S) ELSE 0

\* number of leading characters of s, from 1-based position p, that are not in set S
RECURSIVE RunLenNot(_, _, _)
RunLenNot(s, p, S) ==
  IF p <= Len(s) /\ s[p] \notin S THEN 1 + RunLenNot(s, p + 1, S) ELSE 0

\* number of trailing characters of s that are in set S
RECURSIVE TrailLen(_, _)
TrailLen(s, S) ==
  IF Len(s) > 0 /\ s[Len(s)] \in S THEN 1 + TrailLen(SubSeq(s, 1, Len(s) - 1), S) ELSE 0

\* String.prototype.trim
Trim(s) ==
  LET lead == RunLen(s, 1, WhiteSpace)
  IN  IF lead = Len(s) THEN <<>>
      ELSE SubSeq(s, lead + 1, Len(s) - TrailLen(s, WhiteSpace))

\* response.split('\n')
RECURSIVE SplitLines(_)
SplitLines(s) ==
  LET n == RunLenNot(s, 1, {NL})
  IN  IF n = Len(s) THEN <<s>>
      ELSE <<SubSeq(s, 1, n)>> \o SplitLines(Drop(s, n + 1))

(***************************************************************************)
(* parseTranslationResponse                                                *)
(***************************************************************************)
\* One attempt of /^\d+\.\s*(.+)$/m at 1-based position p: the position just
\* after the match, or 0 when the expression does not match at p.
NumberedMatchEnd(s, p) ==
  LET d == RunLen(s, p, Digits)
      q == p + d + 1
      w == RunLen(s, q, WhiteSpace)
      \* \s* is greedy and backtracks: the longest k such that (.+) can start
      ks == {k \in 0..w : q + k <= Len(s) /\ s[q + k] \notin LineTerminators}
  IN  IF /\ (p = 1 \/ s[p - 1] \in LineTerminators)
         /\ d >= 1
         /\ p + d <= Len(s)
         /\ s[p + d] = DOT
         /\ ks /= {}
      THEN LET k == CHOOSE x \in ks : \A y \in ks : y <= x
               start == q + k
               \* (.+) is greedy: it runs to the end of the line, where $ holds
           IN  start + RunLenNot(s, start, LineTerminators)
      ELSE 0

\* response.match(/^\d+\.\s*(.+)$/gm): the matches left to right, <<>> for null
RECURSIVE NumberedMatchesFrom(_, _)
NumberedMatchesFrom(s, p) ==
  IF p > Len(s) THEN <<>>
  ELSE LET e == NumberedMatchEnd(s, p)
       IN  IF e = 0 THEN NumberedMatchesFrom(s, p + 1)
           ELSE <<SubSeq(s, p, e - 1)>> \o NumberedMatchesFrom(s, e)

NumberedMatches(s) == NumberedMatchesFrom(s, 1)

\* mutant of StripNumeral: the numeral and the period stay in the text
StripNumeralKeepsNumeral(m) == Trim(m)

\* match.replace(/^\d+\.\s*/, '').trim()
StripNumeral(m) ==
  LET d == RunLen(m, 1, Digits)
  IN  IF d >= 1 /\ d < Len(m) /\ m[d + 1] = DOT
      THEN Trim(Drop(m, d + 1 + RunLen(m, d + 2, WhiteSpace)))
      ELSE Trim(m)

\* mutant of IsBareNumeral: no line counts as a bare numeral
IsBareNumeralNever(line) == FALSE

\* line.match(/^\d+\.?\s*$/)
IsBareNumeral(line) ==
  LET d == RunLen(line, 1, Digits)
      rest == Drop(line, d)
      AllSpace(t) == RunLen(t, 1, WhiteSpace) = Len(t)
  IN  /\ d >= 1
      /\ \/ AllSpace(rest)
         \/ (Len(rest) >= 1 /\ rest[1] = DOT /\ AllSpace(Tail(rest)))

\* mutant of ParseErrorMarker: the missing entries are padded with the empty string
ParseErrorMarkerEmpty == <<>>

\* a marker text is a one-token text, so that it compares with parsed texts
ParseErrorMarker == <<"[Translation error: Unable to parse response]">>

\* .filter((line) => line.length > 0 && !line.match(/^\d+\.?\s*$/))
RECURSIVE FilterLines(_)
FilterLines(lines) ==
  IF lines = <<>> THEN <<>>
  ELSE (IF Len(Head(lines)) > 0 /\ ~IsBareNumeral(Head(lines)) THEN <<Head(lines)>> ELSE <<>>)
         \o FilterLines(Tail(lines))

\* the fallback's usable lines: split, trim, drop blank and bare-numeral lines
UsableLines(response) ==
  LET split == SplitLines(response)
  IN  FilterLines([i \in 1..Len(split) |-> Trim(split[i])])

\* mutant of SliceLines: the fallback returns every usable line, without the slice
SliceLinesNoSlice(lines, expectedCount) == lines

\* lines.slice(0, expectedCount)
SliceLines(lines, expectedCount) == SubSeq(lines, 1, expectedCount)

\* mutant of parseTranslationResponse: the last resort returns the lines it has,
\* without padding
parseTranslationResponseUnpadded(response, expectedCount) ==
  LET numberedMatches == NumberedMatches(response)
      lines == UsableLines(response)
  IN  IF numberedMatches /= <<>> /\ Len(numberedMatches) = expectedCount
      THEN [i \in 1..Len(numberedMatches) |-> StripNumeral(numberedMatches[i])]
      ELSE SubSeq(lines, 1, Min(Len(lines), expectedCount))

parseTranslationResponse(response, expectedCount) ==
  LET numberedMatches == NumberedMatches(response)
      lines == UsableLines(response)
  IN  IF numberedMatches /= <<>> /\ Len(numberedMatches) = expectedCount
      THEN [i \in 1..Len(numberedMatches) |-> StripNumeral(numberedMatches[i])]
      ELSE IF Len(lines) >= expectedCount
      THEN SliceLines(lines, expectedCount)
      ELSE [i \in 1..expectedCount |->
              IF i <= Len(lines) /\ lines[i] /= <<>> THEN lines[i] ELSE ParseErrorMarker]

\* which of the three strategies parseTranslationResponse takes
ParseStrategy(response, expectedCount) ==
  IF NumberedMatches(response) /= <<>> /\ Len(NumberedMatches(response)) = expectedCount
  THEN 1
  ELSE IF Len(UsableLines(response)) >= expectedCount THEN 2 ELSE 3

(***************************************************************************)
(* State.                                                                  *)
(***************************************************************************)
VARIABLES
  \* the configuration store (configManager.config), as far as a run reads it
  config,
  \* TranslatorClient.abortController: "none" (undefined), "live" or "aborted"
  abortController,
  \* position of the translateBatch invocation: "idle", "running", "returned"
  pc,
  \* arguments and locals of the translateBatch invocation
  texts, concurrency, maxRetries, batchSize, batches,
  results, failed, processedSubtitles, currentBatchIndex,
  \* the worker promises: position, claimed batch, retryCount, caught error and
  \* the delay (ms) of the backoff timer last set
  workers,
  \* the progress snapshots passed to onProgress by the latest handler that emitted
  emitted,
  \* history, per batch: state of the batch, number of translateSubtitleBatch
  \* invocations, number of generateText calls, raw response of the successful call
  batchState, attempts, modelCalls, response,
  \* history: the results array as it was when cancel() aborted the run
  resultsAtCancel,
  \* the parser harness: raw response, expected count, output, position
  raw, expectedCount, parsed, parserPc,
  \* the createModel harness: its arguments and the providerType it settles on
  providerId, provider, providerType,
  \* the abort-signal harness: every AbortController created so far ("live" or
  \* "aborted"), the one in this.abortController (0: undefined), and per
  \* translateBatch invocation its position, the controller it created, the
  \* controller whose signal each of its generateText calls was given
  controllers, thisController, runs,
  \* the streaming harness: the events passed to the callback of
  \* translateBatchWithStreaming, its position, and how the call settled
  events, streamPc, settled,
  \* the ConfigManager harness: which object this.config is ("default" is the
  \* imported defaultConfig object), the top-level fields of the two objects,
  \* the contents of the two providers objects, and the last operation with
  \* what it returned (and, for removeProvider, the identifier it was given)
  configRef, top, providersHeap, lastOp

\* what a run fixes when it starts
runArgs == <<texts, concurrency, maxRetries, batchSize, batches>>
runVars == <<texts, concurrency, maxRetries, batchSize, batches, results, failed,
             processedSubtitles, currentBatchIndex, workers, emitted>>
histVars == <<batchState, attempts, modelCalls, response, resultsAtCancel>>
parserVars == <<raw, expectedCount, parsed, parserPc>>
modelVars == <<providerId, provider, providerType>>
signalVars == <<controllers, thisController, runs>>
streamVars == <<events, streamPc, settled>>
managerVars == <<configRef, top, providersHeap, lastOp>>
vars == <<config, abortController, pc, runVars, histVars, parserVars, modelVars, signalVars, streamVars, managerVars>>

(***************************************************************************)
(* Inputs.                                                                 *)
(***************************************************************************)
\* values of config.concurrency, config.maxRetries, config.subtitleBatchSize
ConcurrencySettings == {1, 2}
MaxRetriesSettings == {0, 1}
BatchSizeSettings == {0, 1, 2}

\* the input texts: n distinct fragments, or n times the same fragment
Fragments == <<"Hello", "World", "Foo", "Bar", "Baz", "Qux">>
TextInputs ==
  {SubSeq(Fragments, 1, n) : n \in 0..MaxTexts} \cup {[i \in 1..n |-> "Hello"] : n \in 2..MaxTexts}

\* raw model outputs (result.text) a generateText call may return
NumberedResponse == <<"1", DOT, SP, "a", NL, "2", DOT, SP, "b">>
PlainResponse == <<SP, "c", NL>>
Responses == {NumberedResponse, PlainResponse}

\* error messages caught by processBatchWithRetry
CancelledMessage == "Translation cancelled by user"
ProviderMessage == "Translation failed: provider error"
NotFoundMessage == "Provider not found in configuration"

\* `[Translation failed: ${error.message}]`
FailedMarker(message) == <<"[Translation failed: ", message, "]">>
\* `[Translation failed: No response for item ${i + 1}]`
ItemLabel == <<"1", "2", "3", "4", "5", "6">>
NoResponseMarker(i) == <<"[Translation failed: No response for item ", ItemLabel[i + 1], "]">>

(***************************************************************************)
(* translateBatch: configuration defaults and batch partition.             *)
(***************************************************************************)
DefaultConcurrency == 3
DefaultMaxRetries == 2
DefaultBatchSize == 5

\* config.concurrency || 3
EffectiveConcurrency(cfg) ==
  IF cfg.concurrency = 0 THEN DefaultConcurrency ELSE cfg.concurrency
\* config.maxRetries || 2
EffectiveMaxRetries(cfg) ==
  IF cfg.maxRetries = 0 THEN DefaultMaxRetries ELSE cfg.maxRetries
\* config.subtitleBatchSize || 5
EffectiveBatchSize(cfg) ==
  IF cfg.subtitleBatchSize = 0 THEN DefaultBatchSize ELSE cfg.subtitleBatchSize

\* for (let i = 0; i < texts.length; i += batchSize) batches.push({texts.slice(..), startIndex: i})
RECURSIVE BatchesFrom(_, _, _)
BatchesFrom(ts, size, i) ==
  IF i >= Len(ts) THEN <<>>
  ELSE <<[texts |-> SubSeq(ts, i + 1, Min(i + size, Len(ts))), startIndex |-> i]>>
         \o BatchesFrom(ts, size, i + size)

\* the batches array (1-based here: batches[batchIndex + 1])
Batches(ts, size) == BatchesFrom(ts, size, 0)

\* the result indices of batch b (0-based, as in the code)
BatchIndices(b) == {b.startIndex + i : i \in 0..(Len(b.texts) - 1)}

Unset == [set |-> FALSE, originalText |-> "", translatedText |-> <<>>]
TranslationResult(original, translated) ==
  [set |-> TRUE, originalText |-> original, translatedText |-> translated]

\* mutant of Snapshot: completed counts the translated fragments only
SnapshotSuccessesOnly(ts, processed, failedList, currentBatch) ==
  [total |-> Len(ts), completed |-> processed - Len(failedList), failed |-> Len(failedList),
   current |-> IF currentBatch = <<>> THEN <<>>
               ELSE LET b == currentBatch[1]
                    IN  <<b.startIndex + 1, Min(b.startIndex + Len(b.texts), Len(ts))>>]

\* the snapshot updateProgress passes to onProgress; current is <<from, to>> or <<>>
Snapshot(ts, processed, failedList, currentBatch) ==
  [total |-> Len(ts), completed |-> processed, failed |-> Len(failedList),
   current |-> IF currentBatch = <<>> THEN <<>>
               ELSE LET b == currentBatch[1]
                    IN  <<b.startIndex + 1, Min(b.startIndex + Len(b.texts), Len(ts))>>]

NoResponse == <<"no response yet">>

(***************************************************************************)
(* processBatchWithRetry: the two writes into the results array.           *)
(***************************************************************************)
\* mutant of ResultIndex: the batch offset is forgotten
ResultIndexNoOffset(b, i) == i

\* mutant of ResultIndex: results are appended in completion order
ResultIndexAppend(b, i) == processedSubtitles + i

\* the slot batch item i (0-based) is written to: batch.startIndex + i
ResultIndex(b, i) == b.startIndex + i

\* mutant of WriteTranslated: the batch is written into a fresh results array
WriteTranslatedFresh(res, b, translatedTexts) ==
  [idx \in DOMAIN res |->
     IF \E i \in 0..(Len(b.texts) - 1) : ResultIndex(b, i) = idx
     THEN LET i == CHOOSE j \in 0..(Len(b.texts) - 1) : ResultIndex(b, j) = idx
          IN  TranslationResult(b.texts[i + 1],
                IF i + 1 <= Len(translatedTexts) /\ translatedTexts[i + 1] /= <<>>
                THEN translatedTexts[i + 1] ELSE NoResponseMarker(i))
     ELSE Unset]

\* success: results[resultIndex] =
\*   {originalText: batch.texts[i], translatedText: translatedTexts[i] || marker}
WriteTranslated(res, b, translatedTexts) ==
  [idx \in DOMAIN res |->
     IF \E i \in 0..(Len(b.texts) - 1) : ResultIndex(b, i) = idx
     THEN LET i == CHOOSE j \in 0..(Len(b.texts) - 1) : ResultIndex(b, j) = idx
          IN  TranslationResult(b.texts[i + 1],
                IF i + 1 <= Len(translatedTexts) /\ translatedTexts[i + 1] /= <<>>
                THEN translatedTexts[i + 1] ELSE NoResponseMarker(i))
     ELSE res[idx]]

\* mutant of WriteFailed: only the first fragment of the batch gets the marker
WriteFailedFirstOnly(res, b, message) ==
  [idx \in DOMAIN res |->
     IF idx = b.startIndex THEN TranslationResult(b.texts[1], FailedMarker(message))
     ELSE res[idx]]

\* max retries reached: results[resultIndex] = {originalText, `[Translation failed: ...]`}
WriteFailed(res, b, message) ==
  [idx \in DOMAIN res |->
     IF \E i \in 0..(Len(b.texts) - 1) : ResultIndex(b, i) = idx
     THEN LET i == CHOOSE j \in 0..(Len(b.texts) - 1) : ResultIndex(b, j) = idx
          IN  TranslationResult(b.texts[i + 1], FailedMarker(message))
     ELSE res[idx]]

\* mutant of PushFailed: only the first index of the batch is pushed
PushFailedFirstOnly(failedList, b) == Append(failedList, b.startIndex)

\* mutant of PushFailed: the indices of a failed batch are not recorded
PushFailedNone(failedList, b) == failedList

\* failed.push(resultIndex) for i = 0 .. batch.texts.length - 1
PushFailed(failedList, b) ==
  failedList \o [i \in 1..Len(b.texts) |-> ResultIndex(b, i - 1)]

\* milliseconds per second
BackoffUnit == 1000

\* mutant of Delay: the same wait before every retry
DelayConstant(retryCount) == BackoffUnit

\* const delay = Math.pow(2, retryCount) * 1000
Delay(retryCount) == (2 ^ retryCount) * BackoffUnit

\* retryCount < maxRetries
ShouldRetry(retryCount, limit) == retryCount < limit

(***************************************************************************)
(* Initial state: a constructed TranslatorClient, no run yet.              *)
(***************************************************************************)
ConfigValues ==
  [concurrency : ConcurrencySettings, maxRetries : MaxRetriesSettings,
   subtitleBatchSize : BatchSizeSettings, providerPresent : BOOLEAN]

IdleRun ==
  /\ abortController = "none"
  /\ pc = "idle"
  /\ texts = <<>>
  /\ concurrency = 0
  /\ maxRetries = 0
  /\ batchSize = 0
  /\ batches = <<>>
  /\ results = <<>>
  /\ failed = <<>>
  /\ processedSubtitles = 0
  /\ currentBatchIndex = 0
  /\ workers = <<>>
  /\ emitted = <<>>
  /\ batchState = <<>>
  /\ attempts = <<>>
  /\ modelCalls = <<>>
  /\ response = <<>>
  /\ resultsAtCancel = <<>>

\* invocations of translateBatch explored by the abort-signal harness
MaxRuns == 2
\* generateText calls each of them issues
CallsPerRun == 2

\* no invocation of the abort-signal harness has started
NoSignal ==
  /\ controllers = <<>>
  /\ thisController = 0
  /\ runs = [r \in 1..MaxRuns |-> [pc |-> "idle", own |-> 0, calls |-> <<>>]]

\* identifiers and names are sequences of characters
OpenAIId == <<"o", "p", "e", "n", "a", "i">>

\* the providers object of the shipped configuration, in key order, after the
\* constructor's normalisation of defaultModel and selectedModel
ShippedProviders ==
  << [id |-> OpenAIId, apiKey |-> "", baseURL |-> "", models |-> <<"m1">>,
      defaultModel |-> "m1", selectedModel |-> "m1", isCustom |-> FALSE],
     [id |-> <<"g", "o", "o", "g", "l", "e">>, apiKey |-> "", baseURL |-> "", models |-> <<"m2">>,
      defaultModel |-> "m2", selectedModel |-> "m2", isCustom |-> FALSE] >>

\* the top-level fields of the shipped configuration
ShippedTop == [defaultProvider |-> OpenAIId, concurrency |-> DefaultConcurrency, providers |-> "default"]

\* the ConfigManager has not been constructed
NoManager ==
  /\ configRef = "default"
  /\ top = <<>>
  /\ providersHeap = <<>>
  /\ lastOp = <<>>

\* progress events explored by the streaming harness
MaxProgress == 3

\* translateBatchWithStreaming has not been called
NoStream ==
  /\ events = <<>>
  /\ streamPc = "idle"
  /\ settled = [how |-> "pending", value |-> <<>>]

\* createModel has not been called
NoModel ==
  /\ providerId = ""
  /\ provider = [baseURL |-> <<>>, isCustom |-> FALSE]
  /\ providerType = "unset"

Init ==
  /\ config \in ConfigValues
  /\ IdleRun
  /\ raw = <<>>
  /\ expectedCount = 0
  /\ parsed = <<>>
  /\ parserPc = "off"
  /\ NoModel
  /\ NoSignal
  /\ NoStream
  /\ NoManager

(***************************************************************************)
(* translateSubtitleBatch up to its await: the worker's position after it  *)
(* invoked translateSubtitleBatch for its batch.                           *)
(***************************************************************************)
\* config.providers[provider] is looked up on every invocation
IssuedPc == IF config.providerPresent THEN "calling" ELSE "rejected"

\* mutant of Issue: the batch is not marked as in flight
IssueUnmarked(w, batchIndex, retryCount) ==
  /\ workers' = [workers EXCEPT ![w] =
       [pc |-> IssuedPc, batch |-> batchIndex, retryCount |-> retryCount,
        error |-> IF config.providerPresent THEN "" ELSE NotFoundMessage, delay |-> 0]]
  /\ attempts' = [attempts EXCEPT ![batchIndex + 1] = @ + 1]
  /\ modelCalls' = [modelCalls EXCEPT ![batchIndex + 1] =
       IF config.providerPresent THEN @ + 1 ELSE @]
  /\ batchState' = batchState

Issue(w, batchIndex, retryCount) ==
  /\ workers' = [workers EXCEPT ![w] =
       [pc |-> IssuedPc, batch |-> batchIndex, retryCount |-> retryCount,
        error |-> IF config.providerPresent THEN "" ELSE NotFoundMessage, delay |-> 0]]
  /\ attempts' = [attempts EXCEPT ![batchIndex + 1] = @ + 1]
  /\ modelCalls' = [modelCalls EXCEPT ![batchIndex + 1] =
       IF config.providerPresent THEN @ + 1 ELSE @]
  /\ batchState' = [batchState EXCEPT ![batchIndex + 1] = "InFlight"]

(***************************************************************************)
(* translateBatch, up to `await Promise.all(workers)`.                     *)
(***************************************************************************)
\* mutant of WorkerCount: one worker more than the concurrency allows
WorkerCountPlusOne(c, bs) == Min(c + 1, Len(bs))

\* mutant of WorkerCount: one worker per batch, whatever the concurrency
WorkerCountPerBatch(c, bs) == Len(bs)

\* Math.min(concurrency, batches.length)
WorkerCount(c, bs) == Min(c, Len(bs))

translateBatch(ts) ==
  /\ pc = "idle"
  /\ LET c == EffectiveConcurrency(config)
         m == EffectiveMaxRetries(config)
         s == EffectiveBatchSize(config)
         bs == Batches(ts, s)
         k == WorkerCount(c, bs)
     IN  /\ abortController' = "live"
         /\ texts' = ts
         /\ concurrency' = c
         /\ maxRetries' = m
         /\ batchSize' = s
         /\ batches' = bs
         /\ results' = [i \in 0..(Len(ts) - 1) |-> Unset]
         /\ failed' = <<>>
         /\ processedSubtitles' = 0
         /\ currentBatchIndex' = k
         /\ workers' = [w \in 1..k |->
              [pc |-> IssuedPc, batch |-> w - 1, retryCount |-> 0,
               error |-> IF config.providerPresent THEN "" ELSE NotFoundMessage, delay |-> 0]]
         /\ emitted' = <<Snapshot(ts, 0, <<>>, <<>>)>>
                         \o [w \in 1..k |-> Snapshot(ts, 0, <<>>, <<bs[w]>>)]
         /\ batchState' = [b \in 1..Len(bs) |-> IF b <= k THEN "InFlight" ELSE "Pending"]
         /\ attempts' = [b \in 1..Len(bs) |-> IF b <= k THEN 1 ELSE 0]
         /\ modelCalls' = [b \in 1..Len(bs) |->
              IF b <= k /\ config.providerPresent THEN 1 ELSE 0]
         /\ response' = [b \in 1..Len(bs) |-> NoResponse]
  /\ resultsAtCancel' = <<>>
  /\ pc' = "running"
  /\ UNCHANGED <<config, parserVars, modelVars, signalVars, streamVars, managerVars>>

(***************************************************************************)
(* processBatchWithRetry                                                   *)
(***************************************************************************)
\* mutant of CallOutcomes: a call in flight never settles once the signal is aborted
CallOutcomesAbortHangs ==
  IF abortController = "aborted" THEN {} ELSE {"resolved", "rejected"}

\* generateText({..., abortSignal}): how a call in flight can end. Once the signal
\* is aborted the call rejects with an AbortError.
CallOutcomes ==
  IF abortController = "aborted" THEN {"rejected"} ELSE {"resolved", "rejected"}

\* the try block after `await this.translateSubtitleBatch(...)` resolved
CallReturns(w, resp) ==
  /\ pc = "running"
  /\ w \in DOMAIN workers
  /\ workers[w].pc = "calling"
  /\ "resolved" \in CallOutcomes
  /\ LET b == batches[workers[w].batch + 1]
         translatedTexts == parseTranslationResponse(Trim(resp), Len(b.texts))
     IN  /\ results' = WriteTranslated(results, b, translatedTexts)
         /\ processedSubtitles' = processedSubtitles + Len(b.texts)
         /\ emitted' = <<Snapshot(texts, processedSubtitles + Len(b.texts), failed, <<>>)>>
  /\ workers' = [workers EXCEPT ![w].pc = "loop"]
  /\ batchState' = [batchState EXCEPT ![workers[w].batch + 1] = "Succeeded"]
  /\ response' = [response EXCEPT ![workers[w].batch + 1] = resp]
  /\ UNCHANGED <<config, abortController, pc, runArgs,
                 failed, currentBatchIndex, attempts, modelCalls, resultsAtCancel, parserVars, modelVars, signalVars, streamVars, managerVars>>

\* mutant of Catch: a batch that exhausted its retries is not counted as processed
CatchNotCounted(w, message) ==
  LET b == batches[workers[w].batch + 1]
  IN  IF ShouldRetry(workers[w].retryCount, maxRetries)
      THEN /\ workers' = [workers EXCEPT ![w].pc = "backoff", ![w].error = message,
                                          ![w].delay = Delay(workers[w].retryCount)]
           /\ batchState' = [batchState EXCEPT ![workers[w].batch + 1] = "RetryScheduled"]
           /\ UNCHANGED <<results, failed, processedSubtitles, emitted>>
      ELSE /\ failed' = PushFailed(failed, b)
           /\ results' = WriteFailed(results, b, message)
           /\ processedSubtitles' = processedSubtitles
           /\ emitted' = <<Snapshot(texts, processedSubtitles, PushFailed(failed, b), <<>>)>>
           /\ workers' = [workers EXCEPT ![w].pc = "loop", ![w].error = message]
           /\ batchState' = [batchState EXCEPT ![workers[w].batch + 1] = "Failed"]

\* the catch block, for the error `message` thrown by translateSubtitleBatch
Catch(w, message) ==
  LET b == batches[workers[w].batch + 1]
  IN  IF ShouldRetry(workers[w].retryCount, maxRetries)
      THEN \* await new Promise((resolve) => setTimeout(resolve, delay))
           /\ workers' = [workers EXCEPT ![w].pc = "backoff", ![w].error = message,
                                          ![w].delay = Delay(workers[w].retryCount)]
           /\ batchState' = [batchState EXCEPT ![workers[w].batch + 1] = "RetryScheduled"]
           /\ UNCHANGED <<results, failed, processedSubtitles, emitted>>
      ELSE /\ failed' = PushFailed(failed, b)
           /\ results' = WriteFailed(results, b, message)
           /\ processedSubtitles' = processedSubtitles + Len(b.texts)
           /\ emitted' = <<Snapshot(texts, processedSubtitles + Len(b.texts),
                                    PushFailed(failed, b), <<>>)>>
           /\ workers' = [workers EXCEPT ![w].pc = "loop", ![w].error = message]
           /\ batchState' = [batchState EXCEPT ![workers[w].batch + 1] = "Failed"]

\* generateText rejected: an AbortError once the signal is aborted, else a provider error
CallFails(w) ==
  /\ pc = "running"
  /\ w \in DOMAIN workers
  /\ workers[w].pc = "calling"
  /\ "rejected" \in CallOutcomes
  /\ Catch(w, IF abortController = "aborted" THEN CancelledMessage ELSE ProviderMessage)
  /\ UNCHANGED <<config, abortController, pc, runArgs,
                 currentBatchIndex, attempts, modelCalls, response, resultsAtCancel, parserVars, modelVars, signalVars, streamVars, managerVars>>

\* translateSubtitleBatch threw `Provider ... not found in configuration`
ProviderNotFound(w) ==
  /\ pc = "running"
  /\ w \in DOMAIN workers
  /\ workers[w].pc = "rejected"
  /\ Catch(w, NotFoundMessage)
  /\ UNCHANGED <<config, abortController, pc, runArgs,
                 currentBatchIndex, attempts, modelCalls, response, resultsAtCancel, parserVars, modelVars, signalVars, streamVars, managerVars>>

\* the backoff timer fired: return processBatchWithRetry(batch, retryCount + 1)
BackoffElapsed(w) ==
  /\ pc = "running"
  /\ w \in DOMAIN workers
  /\ workers[w].pc = "backoff"
  /\ Issue(w, workers[w].batch, workers[w].retryCount + 1)
  /\ emitted' = <<Snapshot(texts, processedSubtitles, failed,
                           <<batches[workers[w].batch + 1]>>)>>
  /\ UNCHANGED <<config, abortController, pc, runArgs,
                 results, failed, processedSubtitles, currentBatchIndex, response,
                 resultsAtCancel, parserVars, modelVars, signalVars, streamVars, managerVars>>

(***************************************************************************)
(* createWorker: while (currentBatchIndex < batches.length) ...            *)
(***************************************************************************)
\* mutant of ClaimNext: the cursor is read but not advanced
ClaimNextNoAdvance(w) ==
  /\ pc = "running"
  /\ w \in DOMAIN workers
  /\ workers[w].pc = "loop"
  /\ currentBatchIndex < Len(batches)
  /\ Issue(w, currentBatchIndex, 0)
  /\ emitted' = <<Snapshot(texts, processedSubtitles, failed,
                           <<batches[currentBatchIndex + 1]>>)>>
  /\ UNCHANGED <<config, abortController, pc, runArgs, currentBatchIndex,
                 results, failed, processedSubtitles, response, resultsAtCancel,
                 parserVars, modelVars, signalVars, streamVars, managerVars>>

\* const batchIndex = currentBatchIndex++; await processBatchWithRetry(batches[batchIndex])
ClaimNext(w) ==
  /\ pc = "running"
  /\ w \in DOMAIN workers
  /\ workers[w].pc = "loop"
  /\ currentBatchIndex < Len(batches)
  /\ currentBatchIndex' = currentBatchIndex + 1
  /\ Issue(w, currentBatchIndex, 0)
  /\ emitted' = <<Snapshot(texts, processedSubtitles, failed,
                           <<batches[currentBatchIndex + 1]>>)>>
  /\ UNCHANGED <<config, abortController, pc, runArgs,
                 results, failed, processedSubtitles, response, resultsAtCancel, parserVars, modelVars, signalVars, streamVars, managerVars>>

WorkerExits(w) ==
  /\ pc = "running"
  /\ w \in DOMAIN workers
  /\ workers[w].pc = "loop"
  /\ ~(currentBatchIndex < Len(batches))
  /\ workers' = [workers EXCEPT ![w].pc = "done"]
  /\ UNCHANGED <<config, abortController, pc, runArgs,
                 results, failed, processedSubtitles, currentBatchIndex, emitted,
                 histVars, parserVars, modelVars, signalVars, streamVars, managerVars>>

\* await Promise.all(workers) resolved: return results
Return ==
  /\ pc = "running"
  /\ \A w \in DOMAIN workers : workers[w].pc = "done"
  /\ pc' = "returned"
  /\ UNCHANGED <<config, abortController, runVars, histVars, parserVars, modelVars, signalVars, streamVars, managerVars>>

(***************************************************************************)
(* cancel                                                                  *)
(***************************************************************************)
Terminal == {"Succeeded", "Failed"}

cancel ==
  /\ abortController = "live"
  /\ abortController' = "aborted"
  /\ resultsAtCancel' = results
  /\ UNCHANGED <<config, pc, runVars, batchState, attempts, modelCalls, response, parserVars, modelVars, signalVars, streamVars, managerVars>>

Next ==
  \/ \E ts \in TextInputs : translateBatch(ts)
  \/ \E w \in DOMAIN workers, resp \in Responses : CallReturns(w, resp)
  \/ \E w \in DOMAIN workers : CallFails(w)
  \/ \E w \in DOMAIN workers : ProviderNotFound(w)
  \/ \E w \in DOMAIN workers : BackoffElapsed(w)
  \/ \E w \in DOMAIN workers : ClaimNext(w)
  \/ \E w \in DOMAIN workers : WorkerExits(w)
  \/ Return
  \/ cancel

Spec == Init /\ [][Next]_vars

(***************************************************************************)
(* The configuration store changed while a run may be in progress:         *)
(* ConfigManager.updateConfig, removeProvider, addCustomProvider.          *)
(***************************************************************************)
\* Partial<TranslationConfig> updates of the three settings a run reads
ConfigUpdates ==
  [concurrency : ConcurrencySettings, maxRetries : MaxRetriesSettings,
   subtitleBatchSize : BatchSizeSettings]

\* this.config = { ...this.config, ...updates }
updateConfig(updates) ==
  /\ config' = [config EXCEPT !.concurrency = updates.concurrency,
                              !.maxRetries = updates.maxRetries,
                              !.subtitleBatchSize = updates.subtitleBatchSize]
  /\ config' /= config
  /\ UNCHANGED <<abortController, pc, runVars, histVars, parserVars, modelVars, signalVars, streamVars, managerVars>>

\* delete this.config.providers[providerId], for the (custom) provider of the run
removeProvider ==
  /\ config.providerPresent
  /\ config' = [config EXCEPT !.providerPresent = FALSE]
  /\ UNCHANGED <<abortController, pc, runVars, histVars, parserVars, modelVars, signalVars, streamVars, managerVars>>

\* this.config.providers[providerId] = {...provider, id: providerId, isCustom: true, ...}
addCustomProvider ==
  /\ ~config.providerPresent
  /\ config' = [config EXCEPT !.providerPresent = TRUE]
  /\ UNCHANGED <<abortController, pc, runVars, histVars, parserVars, modelVars, signalVars, streamVars, managerVars>>

\* the runs explored together with configuration changes: up to two texts
ConfigTextInputs == {ts \in TextInputs : Len(ts) <= 2}

ConfigNext ==
  \/ \E ts \in ConfigTextInputs : translateBatch(ts)
  \/ \E w \in DOMAIN workers, resp \in Responses : CallReturns(w, resp)
  \/ \E w \in DOMAIN workers : CallFails(w)
  \/ \E w \in DOMAIN workers : ProviderNotFound(w)
  \/ \E w \in DOMAIN workers : BackoffElapsed(w)
  \/ \E w \in DOMAIN workers : ClaimNext(w)
  \/ \E w \in DOMAIN workers : WorkerExits(w)
  \/ Return
  \/ cancel
  \/ \E updates \in ConfigUpdates : updateConfig(updates)
  \/ removeProvider
  \/ addCustomProvider

ConfigSpec == Init /\ [][ConfigNext]_vars

(***************************************************************************)
(* The parser on its own: parseTranslationResponse applied to every raw    *)
(* response of the bounded input sets.                                     *)
(***************************************************************************)
\* every text of at most MaxRawLen characters
CharTexts == UNION {[1..n -> Alphabet] : n \in 0..MaxRawLen}

\* texts made of whole lines, joined with line breaks
LineShapes ==
  {<<"1", DOT, SP, "a">>, <<"2", DOT, SP, "a", SP, "b">>, <<"a">>, <<"1", DOT>>, <<>>}

RECURSIVE JoinLines(_)
JoinLines(lines) ==
  IF lines = <<>> THEN <<>>
  ELSE IF Len(lines) = 1 THEN lines[1]
  ELSE lines[1] \o <<NL>> \o JoinLines(Tail(lines))

LineTexts == {JoinLines(ls) : ls \in UNION {[1..n -> LineShapes] : n \in 1..MaxExpected}}

\* the numbered format the prompt asks for: `${index + 1}. ${text}` joined by '\n'
ItemTexts == {<<"a">>, <<"a", SP, "b">>, <<"2", DOT, SP, "b">>, <<"a", SP>>, <<SP, "a">>, <<SP>>}
NumberedLine(k, text) == <<ItemLabel[k], DOT, SP>> \o text
NumberedList(ts) == JoinLines([k \in 1..Len(ts) |-> NumberedLine(k, ts[k])])
\* the lists of n texts; a list of n texts makes a response of n lines
ItemListsOf(n) == IF n = 0 THEN {} ELSE [1..n -> ItemTexts]
ItemLists == UNION {ItemListsOf(n) : n \in 1..MaxExpected}
NumberedTexts == {NumberedList(ts) : ts \in ItemLists}

RawInputs == CharTexts \cup LineTexts \cup NumberedTexts

ParserInit ==
  /\ config = [concurrency |-> 1, maxRetries |-> 1, subtitleBatchSize |-> 1,
               providerPresent |-> TRUE]
  /\ IdleRun
  /\ raw \in RawInputs
  /\ expectedCount \in 0..MaxExpected
  /\ parsed = <<>>
  /\ parserPc = "ready"
  /\ NoModel
  /\ NoSignal
  /\ NoStream
  /\ NoManager

ParseResponse ==
  /\ parserPc = "ready"
  /\ parsed' = parseTranslationResponse(raw, expectedCount)
  /\ parserPc' = "done"
  /\ UNCHANGED <<config, abortController, pc, runVars, histVars, raw, expectedCount, modelVars, signalVars, streamVars, managerVars>>

ParserNext == ParseResponse

ParserSpec == ParserInit /\ [][ParserNext]_vars

(***************************************************************************)
(* createModel on its own: the providerType it settles on, for every       *)
(* provider identifier and provider entry of the bounded input sets.       *)
(***************************************************************************)
\* a base URL is a sequence of fragments; <<>> is an undefined or empty baseURL
OpenAIUrl == <<"https://api.", "openai.com", "/v1">>
AnthropicUrl == <<"https://api.", "anthropic.com", "/v1">>
GoogleUrl == <<"https://generativelanguage.", "googleapis.com", "/v1beta">>
SiliconFlowUrl == <<"https://api.", "siliconflow.cn", "/v1">>
OtherUrl == <<"https://llm.example.org", "/v1">>
GatewayUrl == <<"https://gateway.example.org/", "anthropic.com", "/", "googleapis.com">>
BaseURLs ==
  {<<>>, OpenAIUrl, AnthropicUrl, GoogleUrl, SiliconFlowUrl, OtherUrl, GatewayUrl}

\* keys of config.providers: the built-in providers and a custom one
ProviderIds == {"openai", "anthropic", "google", "siliconflow", "my-llm"}

Providers == [baseURL : BaseURLs, isCustom : BOOLEAN]

\* provider.baseURL?.includes(needle)
Includes(url, needle) == \E i \in DOMAIN url : url[i] = needle

\* the if / else-if chain of createModel that settles providerType
ProviderType(id, p) ==
  IF id = "anthropic" \/ Includes(p.baseURL, "anthropic.com") THEN "anthropic"
  ELSE IF id = "google" \/ Includes(p.baseURL, "googleapis.com") THEN "google"
  ELSE IF \/ id = "openai"
          \/ Includes(p.baseURL, "openai.com")
          \/ id = "siliconflow"
          \/ Includes(p.baseURL, "siliconflow.cn")
          \/ p.isCustom
  THEN "openai"
  ELSE "openai"

ModelInit ==
  /\ config = [concurrency |-> 1, maxRetries |-> 1, subtitleBatchSize |-> 1,
               providerPresent |-> TRUE]
  /\ IdleRun
  /\ raw = <<>>
  /\ expectedCount = 0
  /\ parsed = <<>>
  /\ parserPc = "off"
  /\ providerId \in ProviderIds
  /\ provider \in Providers
  /\ providerType = "unset"
  /\ NoSignal
  /\ NoStream
  /\ NoManager

createModel ==
  /\ providerId /= ""
  /\ providerType = "unset"
  /\ providerType' = ProviderType(providerId, provider)
  /\ UNCHANGED <<config, abortController, pc, runVars, histVars, parserVars,
                 providerId, provider, signalVars, streamVars, managerVars>>

ModelNext == createModel

ModelSpec == ModelInit /\ [][ModelNext]_vars

(***************************************************************************)
(* The abort signal on its own: several translateBatch invocations on one  *)
(* TranslatorClient, each issuing its generateText calls one after the     *)
(* other, and cancel().                                                    *)
(***************************************************************************)
SignalInit ==
  /\ config = [concurrency |-> 1, maxRetries |-> 1, subtitleBatchSize |-> 1,
               providerPresent |-> TRUE]
  /\ IdleRun
  /\ raw = <<>>
  /\ expectedCount = 0
  /\ parsed = <<>>
  /\ parserPc = "off"
  /\ NoModel
  /\ NoSignal
  /\ NoStream
  /\ NoManager

\* abortSignal: this.abortController?.signal, read when generateText is called
SignalAtCall == thisController

\* translateBatch up to its first await: this.abortController = new AbortController(),
\* then the first worker issues the first generateText call
StartRun(r) ==
  /\ runs[r].pc = "idle"
  /\ controllers' = Append(controllers, "live")
  /\ thisController' = Len(controllers) + 1
  /\ runs' = [runs EXCEPT ![r] =
       [pc |-> "running", own |-> Len(controllers) + 1, calls |-> <<Len(controllers) + 1>>]]
  /\ UNCHANGED <<config, abortController, pc, runVars, histVars, parserVars, modelVars,
                 streamVars, managerVars>>

\* a later batch or a retry of the run: translateSubtitleBatch calls generateText
IssueModelCall(r) ==
  /\ runs[r].pc = "running"
  /\ Len(runs[r].calls) < CallsPerRun
  /\ runs' = [runs EXCEPT ![r].calls = Append(@, SignalAtCall)]
  /\ UNCHANGED <<config, abortController, pc, runVars, histVars, parserVars, modelVars,
                 controllers, thisController, streamVars, managerVars>>

\* the run's workers are done
FinishRun(r) ==
  /\ runs[r].pc = "running"
  /\ Len(runs[r].calls) = CallsPerRun
  /\ runs' = [runs EXCEPT ![r].pc = "returned"]
  /\ UNCHANGED <<config, abortController, pc, runVars, histVars, parserVars, modelVars,
                 controllers, thisController, streamVars, managerVars>>

\* cancel(): if (this.abortController) this.abortController.abort()
CancelInstalled ==
  /\ thisController /= 0
  /\ controllers[thisController] = "live"
  /\ controllers' = [controllers EXCEPT ![thisController] = "aborted"]
  /\ UNCHANGED <<config, abortController, pc, runVars, histVars, parserVars, modelVars,
                 thisController, runs, streamVars, managerVars>>

SignalNext ==
  \/ \E r \in DOMAIN runs : StartRun(r)
  \/ \E r \in DOMAIN runs : IssueModelCall(r)
  \/ \E r \in DOMAIN runs : FinishRun(r)
  \/ CancelInstalled

SignalSpec == SignalInit /\ [][SignalNext]_vars

(***************************************************************************)
(* translateBatchWithStreaming on its own: translateBatch is a sequence of *)
(* progress callbacks that ends resolved or rejected; the caller's         *)
(* callback returns or throws.                                             *)
(***************************************************************************)
\* the result arrays translateBatch may resolve with, the errors it may reject with
ResultArrays == {<<"r1">>, <<"r1", "r2">>}
TranslateError == "translateBatch error"
CallbackError == "callback error"

\* the `completed` count a progress event carries
ProgressData == 0..1

StreamInit ==
  /\ config = [concurrency |-> 1, maxRetries |-> 1, subtitleBatchSize |-> 1,
               providerPresent |-> TRUE]
  /\ IdleRun
  /\ raw = <<>>
  /\ expectedCount = 0
  /\ parsed = <<>>
  /\ parserPc = "off"
  /\ NoModel
  /\ NoSignal
  /\ NoStream
  /\ NoManager

\* const results = await this.translateBatch(...)
translateBatchWithStreaming ==
  /\ streamPc = "idle"
  /\ streamPc' = "awaiting"
  /\ UNCHANGED <<config, abortController, pc, runVars, histVars, parserVars, modelVars,
                 signalVars, events, settled, managerVars>>

\* (progress) => { onProgress?.({ type: 'progress', data: progress }) }
DeliverProgress(data) ==
  /\ streamPc = "awaiting"
  /\ Len(events) < MaxProgress
  /\ events' = Append(events, [type |-> "progress", data |-> <<data>>])
  /\ UNCHANGED <<config, abortController, pc, runVars, histVars, parserVars, modelVars,
                 signalVars, streamPc, settled, managerVars>>

\* the catch block: onProgress?.({ type: 'error', error: errorMessage }); throw error.
\* When the callback throws on the error event, that exception leaves the call.
CatchBlock(delivered, error, callbackThrows) ==
  /\ events' = Append(delivered, [type |-> "error", data |-> <<error>>])
  /\ streamPc' = "rejected"
  /\ settled' = [how |-> "rejected",
                 value |-> IF callbackThrows THEN <<CallbackError>> ELSE <<error>>]

\* translateBatch resolved: onProgress?.({ type: 'complete', data: results }); return
\* results. The call is inside the try block: a callback that throws on the
\* complete event enters the catch block.
TranslateResolves(res, throwsOnComplete, throwsOnError) ==
  /\ streamPc = "awaiting"
  /\ LET delivered == Append(events, [type |-> "complete", data |-> res])
     IN  IF throwsOnComplete
         THEN CatchBlock(delivered, CallbackError, throwsOnError)
         ELSE /\ events' = delivered
              /\ streamPc' = "returned"
              /\ settled' = [how |-> "returned", value |-> res]
  /\ UNCHANGED <<config, abortController, pc, runVars, histVars, parserVars, modelVars,
                 signalVars, managerVars>>

\* translateBatch rejected
TranslateRejects(throwsOnError) ==
  /\ streamPc = "awaiting"
  /\ CatchBlock(events, TranslateError, throwsOnError)
  /\ UNCHANGED <<config, abortController, pc, runVars, histVars, parserVars, modelVars,
                 signalVars, managerVars>>

StreamNext ==
  \/ translateBatchWithStreaming
  \/ \E data \in ProgressData : DeliverProgress(data)
  \/ \E res \in ResultArrays, t1, t2 \in BOOLEAN : TranslateResolves(res, t1, t2)
  \/ \E t \in BOOLEAN : TranslateRejects(t)

StreamSpec == StreamInit /\ [][StreamNext]_vars

(***************************************************************************)
(* The ConfigManager on its own: this.config is a reference, either to the *)
(* imported defaultConfig object or to an object of the manager's own; the *)
(* providers object is reached through it and is changed in place.         *)
(***************************************************************************)
UpperCase == <<"A", "B", "C", "D", "E", "F", "G", "H", "I", "J", "K", "L", "M",
               "N", "O", "P", "Q", "R", "S", "T", "U", "V", "W", "X", "Y", "Z">>
LowerCase == <<"a", "b", "c", "d", "e", "f", "g", "h", "i", "j", "k", "l", "m",
               "n", "o", "p", "q", "r", "s", "t", "u", "v", "w", "x", "y", "z">>

\* String.prototype.toLowerCase, one character
ToLowerCase(c) ==
  IF \E i \in DOMAIN UpperCase : UpperCase[i] = c
  THEN LowerCase[CHOOSE i \in DOMAIN UpperCase : UpperCase[i] = c]
  ELSE c

\* name.toLowerCase().replace(/\s+/g, '-')
RECURSIVE Slug(_)
Slug(name) ==
  IF name = <<>> THEN <<>>
  ELSE IF Head(name) = " "
       THEN IF Len(name) > 1 /\ name[2] = " "
            THEN Slug(Tail(name))
            ELSE <<"-">> \o Slug(Tail(name))
       ELSE <<ToLowerCase(Head(name))>> \o Slug(Tail(name))

\* { ...a, ...b }
Spread(a, b) ==
  [f \in DOMAIN a \cup DOMAIN b |-> IF f \in DOMAIN b THEN b[f] ELSE a[f]]

\* Object.keys(providers), in insertion order
RECURSIVE Keys(_)
Keys(ps) == IF ps = <<>> THEN <<>> ELSE <<Head(ps).id>> \o Keys(Tail(ps))

HasKey(ps, id) == \E i \in DOMAIN ps : ps[i].id = id

\* providers[id]
Entry(ps, id) == ps[CHOOSE i \in DOMAIN ps : ps[i].id = id]

\* providers[id] = entry: an existing key keeps its position, a new key is last
SetEntry(ps, id, entry) ==
  IF HasKey(ps, id)
  THEN [i \in DOMAIN ps |-> IF ps[i].id = id THEN entry ELSE ps[i]]
  ELSE Append(ps, entry)

\* delete providers[id]
RECURSIVE DeleteEntry(_, _)
DeleteEntry(ps, id) ==
  IF ps = <<>> THEN <<>>
  ELSE IF Head(ps).id = id THEN Tail(ps)
       ELSE <<Head(ps)>> \o DeleteEntry(Tail(ps), id)

\* the providers object reached through this.config
ThisProvidersRef == top[configRef].providers
ThisProviders == providersHeap[ThisProvidersRef]

\* the configuration as getConfig shows it
ThisConfig ==
  [defaultProvider |-> top[configRef].defaultProvider,
   concurrency |-> top[configRef].concurrency,
   providers |-> ThisProviders]

\* the configuration the application ships with
ShippedConfig ==
  [defaultProvider |-> ShippedTop.defaultProvider,
   concurrency |-> ShippedTop.concurrency,
   providers |-> ShippedProviders]

\* the providers that are built-in in the initial configuration
BuiltInIds == {ShippedProviders[i].id : i \in DOMAIN ShippedProviders}

\* what the settings panel can pass
ProviderNames == {<<"O", "p", "e", "n", "A", "I">>, <<"M", "y", " ", " ", "A", "I">>}
NewProviders ==
  [name : ProviderNames, apiKey : {"k1"}, baseURL : {""}, models : {<<"m3">>},
   isCustom : {TRUE}]
ProviderData == [apiKey : {"k1"}]
TopUpdates == [concurrency : {1}]

\* the constructor: loadConfig without a stored configuration returns the
\* imported object itself; with one, a fresh object whose providers were parsed
\* from storage (here: the shipped providers with one credential entered)
ManagerInit ==
  /\ config = [concurrency |-> 1, maxRetries |-> 1, subtitleBatchSize |-> 1,
               providerPresent |-> TRUE]
  /\ IdleRun
  /\ raw = <<>>
  /\ expectedCount = 0
  /\ parsed = <<>>
  /\ parserPc = "off"
  /\ NoModel
  /\ NoSignal
  /\ NoStream
  /\ \E stored \in BOOLEAN :
       /\ configRef = IF stored THEN "own" ELSE "default"
       /\ top = [default |-> ShippedTop,
                 own |-> IF stored THEN [ShippedTop EXCEPT !.providers = "own"] ELSE ShippedTop]
       /\ providersHeap =
            [default |-> ShippedProviders,
             own |-> IF stored
                     THEN SetEntry(ShippedProviders, OpenAIId,
                                   Spread(Entry(ShippedProviders, OpenAIId), [apiKey |-> "k1"]))
                     ELSE ShippedProviders]
  /\ lastOp = [name |-> "none", id |-> <<>>, returned |-> FALSE]

ManagerUnchanged ==
  UNCHANGED <<config, abortController, pc, runVars, histVars, parserVars, modelVars,
              signalVars, streamVars>>

\* this.config = { ...this.config, ...updates }
managerUpdateConfig(updates) ==
  /\ top' = [top EXCEPT !.own = Spread(top[configRef], updates)]
  /\ configRef' = "own"
  /\ lastOp' = [name |-> "updateConfig", id |-> <<>>, returned |-> FALSE]
  /\ UNCHANGED providersHeap
  /\ ManagerUnchanged

\* this.config.providers[providerId] = { ...this.config.providers[providerId], ...providerData }
updateProvider(id, providerData) ==
  /\ HasKey(ThisProviders, id)
  /\ providersHeap' = [providersHeap EXCEPT ![ThisProvidersRef] =
       SetEntry(ThisProviders, id, Spread(Entry(ThisProviders, id), providerData))]
  /\ lastOp' = [name |-> "updateProvider", id |-> <<>>, returned |-> FALSE]
  /\ UNCHANGED <<configRef, top>>
  /\ ManagerUnchanged

managerAddCustomProvider(newProvider) ==
  LET given == IF "id" \in DOMAIN newProvider THEN newProvider.id ELSE <<>>
      id == IF given /= <<>> THEN given ELSE Slug(newProvider.name)
      defaultModel == IF newProvider.models /= <<>> THEN newProvider.models[1] ELSE ""
      entry == Spread(newProvider, [id |-> id, isCustom |-> TRUE,
                                    defaultModel |-> defaultModel, selectedModel |-> defaultModel])
  IN  /\ providersHeap' = [providersHeap EXCEPT ![ThisProvidersRef] =
                             SetEntry(ThisProviders, id, entry)]
      /\ lastOp' = [name |-> "addCustomProvider", id |-> <<>>, returned |-> FALSE]
      /\ UNCHANGED <<configRef, top>>
      /\ ManagerUnchanged

managerRemoveProvider(id) ==
  /\ IF ~HasKey(ThisProviders, id) \/ ~Entry(ThisProviders, id).isCustom
     THEN /\ lastOp' = [name |-> "removeProvider", id |-> id, returned |-> FALSE]
          /\ UNCHANGED <<configRef, top, providersHeap>>
     ELSE LET remaining == DeleteEntry(ThisProviders, id)
              available == Keys(remaining)
          IN  /\ providersHeap' = [providersHeap EXCEPT ![ThisProvidersRef] = remaining]
              /\ top' = IF top[configRef].defaultProvider = id
                        THEN [top EXCEPT ![configRef].defaultProvider =
                                IF available /= <<>> THEN available[1] ELSE OpenAIId]
                        ELSE top
              /\ lastOp' = [name |-> "removeProvider", id |-> id, returned |-> TRUE]
              /\ UNCHANGED configRef
  /\ ManagerUnchanged

\* this.config = defaultConfig
resetToDefaults ==
  /\ configRef' = "default"
  /\ lastOp' = [name |-> "resetToDefaults", id |-> <<>>, returned |-> FALSE]
  /\ UNCHANGED <<top, providersHeap>>
  /\ ManagerUnchanged

\* the identifiers the panel can name
KnownIds == BuiltInIds \cup {Slug(n) : n \in ProviderNames}

ManagerNext ==
  \/ \E updates \in TopUpdates : managerUpdateConfig(updates)
  \/ \E id \in KnownIds, providerData \in ProviderData : updateProvider(id, providerData)
  \/ \E newProvider \in NewProviders : managerAddCustomProvider(newProvider)
  \/ \E id \in KnownIds : managerRemoveProvider(id)
  \/ resetToDefaults

ManagerSpec == ManagerInit /\ [][ManagerNext]_vars

(***************************************************************************)
(* The scheduler under fairness: every model call in flight eventually     *)
(* resolves or rejects, every backoff timer eventually fires, and every    *)
(* pending continuation eventually runs.  cancel and translateBatch are    *)
(* the caller's and are not forced.                                        *)
(***************************************************************************)
SchedulerStep ==
  \/ Return
  \/ \E w \in DOMAIN workers : WorkerExits(w)
  \/ \E w \in DOMAIN workers : ClaimNext(w)
  \/ \E w \in DOMAIN workers : BackoffElapsed(w)
  \/ \E w \in DOMAIN workers : ProviderNotFound(w)
  \/ \E w \in DOMAIN workers : CallFails(w)
  \/ \E w \in DOMAIN workers, resp \in Responses : CallReturns(w, resp)

FairSpec == Spec /\ WF_vars(SchedulerStep)

(***************************************************************************)
(* Properties.                                                             *)
(***************************************************************************)
\* the indices pushed to `failed`, as a set
FailedSet == {failed[k] : k \in DOMAIN failed}

IsFailedMarker(text) ==
  text \in {FailedMarker(CancelledMessage), FailedMarker(ProviderMessage),
            FailedMarker(NotFoundMessage)}

\* the batch (1-based) that holds result index i
BatchOf(i) == CHOOSE b \in DOMAIN batches : i \in BatchIndices(batches[b])

\* C1: when translateBatch returns, the results array has one entry per input
\* text, no slot is unset, and results[i].originalText = texts[i] for every i.
C1_ResultsMatchInput ==
  pc = "returned" =>
    /\ DOMAIN results = 0..(Len(texts) - 1)
    /\ \A i \in DOMAIN results :
         results[i].set /\ results[i].originalText = texts[i + 1]

\* a returned run of several batches in which one batch failed, another
\* succeeded, and a batch was retried
C1_Witness ==
  /\ pc = "returned"
  /\ Len(batches) >= 2
  /\ \E b \in DOMAIN batches : batchState[b] = "Failed"
  /\ \E b \in DOMAIN batches : batchState[b] = "Succeeded" /\ attempts[b] >= 2

\* C2: every fragment i of a successfully translated batch holds the string parsed
\* at position i - startIndex from the response to its own batch.
C2_OwnBatchResponse ==
  \A b \in DOMAIN batchState :
    batchState[b] = "Succeeded" =>
      LET bt == batches[b]
          own == parseTranslationResponse(Trim(response[b]), Len(bt.texts))
      IN  \A i \in BatchIndices(bt) :
            /\ results[i].set
            /\ results[i].translatedText = own[i - bt.startIndex + 1]

\* with two workers, the second batch completed before the first: the first is
\* waiting for a retry while the worker of the second already holds the third
C2_Witness ==
  /\ concurrency > 1
  /\ Len(batches) >= 3
  /\ batchState[1] = "RetryScheduled"
  /\ batchState[2] = "Succeeded"
  /\ batchState[3] = "InFlight"
  /\ Len(batches[2].texts) = 1

\* C3: parseTranslationResponse returns a sequence of exactly expectedCount
\* strings, for every raw response and every expectedCount >= 0.
C3_ParseLength ==
  parserPc = "done" =>
    /\ DOMAIN parsed = 1..expectedCount
    /\ Len(parsed) = expectedCount
    /\ \A i \in 1..expectedCount : parsed[i] \in Seq(STRING)

\* a response with some usable lines, fewer than expected: the padding strategy
C3_Witness ==
  /\ parserPc = "done"
  /\ ParseStrategy(raw, expectedCount) = 3
  /\ Len(UsableLines(raw)) >= 1
  /\ NumberedMatches(raw) /= <<>>

\* C4: a batch is marked failed exactly when it used up maxRetries + 1 attempts
\* without a response; its fragments, and only they, carry the failure marker
\* and are in `failed`; the slots of every other batch hold what their own
\* batch produced (success) or are still unset (not terminal).
C4_FailureIsolated ==
  /\ Len(failed) = Cardinality(FailedSet)
  /\ \A b \in DOMAIN batchState :
       LET bt == batches[b]
       IN  /\ batchState[b] = "Failed" =>
                /\ attempts[b] = maxRetries + 1
                /\ response[b] = NoResponse
                /\ \A i \in BatchIndices(bt) :
                     /\ i \in FailedSet
                     /\ results[i].originalText = texts[i + 1]
                     /\ IsFailedMarker(results[i].translatedText)
           /\ batchState[b] = "Succeeded" =>
                /\ response[b] /= NoResponse
                /\ \A i \in BatchIndices(bt) :
                     /\ i \notin FailedSet
                     /\ results[i].set
                     /\ ~IsFailedMarker(results[i].translatedText)
           /\ batchState[b] \notin Terminal =>
                /\ attempts[b] <= maxRetries + 1
                /\ \A i \in BatchIndices(bt) : i \notin FailedSet /\ ~results[i].set

\* a returned run in which a batch of two fragments failed after maxRetries + 1
\* provider errors while a sibling batch succeeded at its first attempt
C4_Witness ==
  /\ pc = "returned"
  /\ abortController = "live"
  /\ config.providerPresent
  /\ \E b \in DOMAIN batches :
       batchState[b] = "Failed" /\ Len(batches[b].texts) = 2 /\ modelCalls[b] = maxRetries + 1
  /\ \E b \in DOMAIN batches : batchState[b] = "Succeeded" /\ attempts[b] = 1

\* C5: a batch whose call keeps failing is attempted exactly maxRetries + 1
\* times, maxRetries being the configured limit (config.maxRetries), 0 included.
C5_AttemptsFollowConfiguredLimit ==
  \A b \in DOMAIN batchState :
    /\ attempts[b] <= config.maxRetries + 1
    /\ batchState[b] = "Failed" => attempts[b] = config.maxRetries + 1

\* C6: a call that failed because of the cancellation is never followed by a
\* backoff wait for its batch.
C6_CancellationNotRetried ==
  \A w \in DOMAIN workers :
    ~(workers[w].pc = "backoff" /\ workers[w].error = CancelledMessage)

\* C7: once cancel() was called, every slot written before it keeps its value, and
\* every other slot, once written, holds the cancellation marker and is in
\* `failed`; when the run returns no slot is left unset.
C7_CancelKeepsDoneMarksRest ==
  abortController = "aborted" =>
    \A i \in DOMAIN results :
      IF resultsAtCancel[i].set
      THEN results[i] = resultsAtCancel[i]
      ELSE /\ pc = "returned" => results[i].set
           /\ results[i].set =>
                /\ results[i].translatedText = FailedMarker(CancelledMessage)
                /\ i \in FailedSet

\* C8: under fairness every run returns, with every batch terminal, whether or
\* not cancel() was called.
C8_RunReturns ==
  (pc = "running") ~>
    (pc = "returned" /\ \A b \in DOMAIN batchState : batchState[b] \in Terminal)

\* a run that returned although it was cancelled while slots were still unset
C8_Witness ==
  /\ pc = "returned"
  /\ abortController = "aborted"
  /\ \E i \in DOMAIN resultsAtCancel : ~resultsAtCancel[i].set
  /\ \E i \in DOMAIN resultsAtCancel : resultsAtCancel[i].set

\* C9: when the provider is not in the configuration, no batch is ever scheduled,
\* no model call is made and no backoff wait happens.
C9_ConfigErrorFailsFast ==
  (~config.providerPresent /\ pc /= "idle") =>
    /\ \A b \in DOMAIN batchState :
         batchState[b] = "Pending" /\ attempts[b] = 0 /\ modelCalls[b] = 0
    /\ \A w \in DOMAIN workers : workers[w].pc /= "backoff"

Claimed == {b \in DOMAIN batchState : batchState[b] \in {"InFlight", "RetryScheduled"}}

\* C11: a run has exactly min(concurrency, batchCount) workers, never more than
\* that many batches are claimed and not terminal, and a worker changes the batch
\* it holds only when that batch is terminal.
C11_WorkersBounded ==
  /\ [](pc /= "idle" =>
          /\ Len(workers) = Min(concurrency, Len(batches))
          /\ Cardinality(Claimed) <= Min(concurrency, Len(batches)))
  /\ [][pc = "running" =>
          \A w \in DOMAIN workers :
            workers'[w].batch /= workers[w].batch =>
              batchState[workers[w].batch + 1] \in Terminal]_vars

\* two workers over three batches: the first batch is terminal, its worker has
\* claimed the third batch while the second batch waits for a retry
C11_Witness ==
  /\ concurrency = 2
  /\ Len(batches) = 3
  /\ batchState[1] \in Terminal
  /\ batchState[2] = "RetryScheduled"
  /\ batchState[3] = "InFlight"
  /\ workers[1].batch = 2

\* the result slots that hold a TranslationResult
Finalized == {i \in DOMAIN results : results[i].set}

\* the fragments of the batches that exhausted their retries
FailedFragments ==
  UNION {BatchIndices(batches[b]) : b \in {x \in DOMAIN batchState : batchState[x] = "Failed"}}

\* the snapshot passed to the latest onProgress call
LastSnapshot == emitted[Len(emitted)]

NonBlank(text) == Trim(text) /= <<>>

\* C14 as stated: a raw response of exactly n lines `k. text_k`, numbered 1..n,
\* parsed with expectedCount = n, gives <<text_1, ..., text_n>> verbatim.
C14_NumberedVerbatim ==
  (parserPc = "done" /\ Len(SplitLines(raw)) = expectedCount) =>
    \A ts \in ItemListsOf(expectedCount) :
      raw = NumberedList(ts) => parsed = ts

\* C14, amended: when no text_k is blank, the parse gives every text_k without
\* its numeral, period and surrounding white space, in document order; a text
\* without leading or trailing white space is returned verbatim.
C14_NumberedTrimmed ==
  (parserPc = "done" /\ Len(SplitLines(raw)) = expectedCount) =>
    \A ts \in ItemListsOf(expectedCount) :
      (raw = NumberedList(ts) /\ \A k \in DOMAIN ts : NonBlank(ts[k]))
        => /\ parsed = [k \in DOMAIN ts |-> Trim(ts[k])]
           /\ \A k \in DOMAIN ts : ts[k] = Trim(ts[k]) => parsed[k] = ts[k]

\* a numbered response of several lines whose first text ends with a space and
\* whose second text itself starts like a numbered line
C14_Witness ==
  /\ parserPc = "done"
  /\ \E ts \in ItemLists :
       /\ Len(ts) >= 2
       /\ raw = NumberedList(ts)
       /\ expectedCount = Len(ts)
       /\ ts[1] = <<"a", SP>>
       /\ ts[2] = <<"2", DOT, SP, "b">>
       /\ parsed[1] = <<"a">>
       /\ parsed[2] = ts[2]

\* C15: when the numbered strategy does not apply and the response has m usable
\* lines, m < expectedCount, the parse has expectedCount entries: the m usable
\* lines in document order, then expectedCount - m times the error marker.
C15_PaddedWithMarker ==
  (parserPc = "done" /\ ParseStrategy(raw, expectedCount) = 3) =>
    LET usable == UsableLines(raw)
        m == Len(usable)
    IN  /\ m < expectedCount
        /\ Len(parsed) = expectedCount
        /\ \A i \in 1..m : parsed[i] = usable[i] /\ parsed[i] /= <<>>
        /\ \A i \in (m + 1)..expectedCount :
             parsed[i] = <<"[Translation error: Unable to parse response]">>

\* three entries expected from a response with two usable lines and a line that
\* was dropped: two lines, then one marker
C15_Witness ==
  /\ parserPc = "done"
  /\ ParseStrategy(raw, expectedCount) = 3
  /\ expectedCount = 3
  /\ Len(UsableLines(raw)) = 2
  /\ Len(SplitLines(raw)) > 2
  /\ parsed[2] = UsableLines(raw)[2]
  /\ parsed[3] = <<"[Translation error: Unable to parse response]">>

\* the provider families and the base-URL fragment that names each
Families == {"openai", "anthropic", "google"}
FamilyDomain == [openai |-> "openai.com", anthropic |-> "anthropic.com",
                 google |-> "googleapis.com"]

\* C16: createModel selects the family the provider identifier names, whatever
\* the base URL contains; when the identifier names no family it selects a family
\* whose fragment the base URL contains, and the OpenAI-compatible family when
\* there is none.
C16_IdentifierFirst ==
  providerType /= "unset" =>
    LET named == {f \in Families : Includes(provider.baseURL, FamilyDomain[f])}
    IN  IF providerId \in Families THEN providerType = providerId
        ELSE IF named /= {} THEN providerType \in named
        ELSE providerType = "openai"

\* C17: with concurrency = 1, a batch is claimed (and its first model call
\* issued) only when every batch before it is terminal, retries and backoff
\* waits included.
C17_SequentialOrder ==
  (concurrency = 1 /\ pc /= "idle") =>
    \A a, b \in DOMAIN batchState :
      (a < b /\ (attempts[b] > 0 \/ modelCalls[b] > 0)) => batchState[a] \in Terminal

\* one worker over three batches: the first failed after a retry, the second
\* succeeded, the third is in its model call
C17_Witness ==
  /\ concurrency = 1
  /\ Len(batches) = 3
  /\ batchState[1] = "Failed"
  /\ attempts[1] >= 2
  /\ batchState[2] = "Succeeded"
  /\ batchState[3] = "InFlight"
  /\ modelCalls[3] = 1

\* the result indices of the batch worker w holds
HeldIndices(w) == BatchIndices(batches[workers[w].batch + 1])

\* C18: the batches claimed so far are exactly those below the cursor; two
\* workers never hold the same batch and the index ranges they hold are
\* disjoint; a claim takes the batch at the cursor, which nobody claimed
\* before, and advances the cursor; a step that writes result slots writes only
\* slots of the batch held by the one worker that takes the step.
C18_DisjointClaims ==
  /\ [](pc /= "idle" =>
          /\ \A b \in DOMAIN batches : attempts[b] > 0 <=> b <= currentBatchIndex
          /\ \A v, w \in DOMAIN workers :
               v /= w => /\ workers[v].batch /= workers[w].batch
                         /\ HeldIndices(v) \cap HeldIndices(w) = {})
  /\ [][pc = "running" =>
          /\ \A w \in DOMAIN workers :
               workers'[w].batch /= workers[w].batch =>
                 /\ workers'[w].batch = currentBatchIndex
                 /\ currentBatchIndex' = currentBatchIndex + 1
                 /\ attempts[currentBatchIndex + 1] = 0
                 /\ \A v \in DOMAIN workers \ {w} : workers'[v] = workers[v]
          /\ \A i \in DOMAIN results :
               results'[i] /= results[i] =>
                 \E w \in DOMAIN workers :
                   /\ i \in HeldIndices(w)
                   /\ workers[w].pc \in {"calling", "rejected"}
                   /\ workers'[w].pc = "loop"
                   /\ \A v \in DOMAIN workers \ {w} : workers'[v] = workers[v]]_vars

\* two workers over three batches of one fragment: the first worker is retrying
\* the first batch while the second worker, done with the second batch and its
\* slot, holds the third
C18_Witness ==
  /\ Len(workers) = 2
  /\ Len(batches) = 3
  /\ currentBatchIndex = 3
  /\ workers[1].batch = 0
  /\ workers[1].retryCount = 1
  /\ workers[1].pc = "calling"
  /\ workers[2].batch = 2
  /\ workers[2].pc = "calling"
  /\ results[1].set
  /\ ~results[0].set

FragmentsIn(states) ==
  UNION {BatchIndices(batches[b]) : b \in {x \in DOMAIN batchState : batchState[x] \in states}}

\* the fragments of the batches in flight: claimed and not terminal
InFlightFragments == Cardinality(FragmentsIn({"InFlight", "RetryScheduled"}))

\* the fragments of the batches no worker has claimed yet
UnclaimedFragments == Cardinality(FragmentsIn({"Pending"}))

CurrentLabel(b) ==
  <<batches[b].startIndex + 1,
    Min(batches[b].startIndex + Len(batches[b].texts), Len(texts))>>

\* C21: the snapshot emitted by the step in which a batch succeeds carries the
\* `current` label of that batch.
C21_SuccessSnapshotHasCurrent ==
  [][\A b \in DOMAIN batchState :
       (batchState[b] = "InFlight" /\ b \in DOMAIN batchState' /\ batchState'[b] = "Succeeded")
         => /\ emitted'[Len(emitted')].completed = processedSubtitles + Len(batches[b].texts)
            /\ emitted'[Len(emitted')].current = CurrentLabel(b)]_vars

\* C22: a worker waiting for a retry waits 2^k seconds, k being the number of
\* failures of its batch so far minus one; the retryCount of a worker is the
\* number of earlier attempts of the batch it holds, whatever the other batches
\* did, and is 0 at the first attempt of every batch.
C22_ExponentialBackoff ==
  pc = "running" =>
    \A w \in DOMAIN workers :
      LET b == workers[w].batch + 1
      IN  /\ workers[w].retryCount = attempts[b] - 1
          /\ attempts[b] = 1 => workers[w].retryCount = 0
          /\ workers[w].pc = "backoff" => workers[w].delay = (2 ^ (attempts[b] - 1)) * 1000

\* two workers: one waits 2 s after the second failure of its batch while the
\* other is at the first attempt of a later batch
C22_Witness ==
  /\ pc = "running"
  /\ Len(workers) = 2
  /\ workers[1].pc = "backoff"
  /\ workers[1].retryCount = 1
  /\ workers[1].delay = 2000
  /\ workers[2].batch = 2
  /\ workers[2].retryCount = 0
  /\ workers[2].pc = "calling"

\* the moves a batch can make
BatchMoves ==
  {<<"Pending", "InFlight">>, <<"InFlight", "Succeeded">>, <<"InFlight", "RetryScheduled">>,
   <<"RetryScheduled", "InFlight">>, <<"InFlight", "Failed">>}

\* C23: the step that starts a run leaves every batch Pending, or InFlight at
\* its first attempt when a worker claimed it at once; afterwards a batch only
\* makes one of the five moves; a Succeeded or Failed batch is never attempted
\* or called again; when the run has returned every batch is Succeeded or Failed.
C23_BatchLifecycle ==
  /\ [][(pc = "idle" /\ pc' = "running") =>
          \A b \in DOMAIN batchState' :
            \/ batchState'[b] = "Pending" /\ attempts'[b] = 0
            \/ batchState'[b] = "InFlight" /\ attempts'[b] = 1]_vars
  /\ [][pc = "running" =>
          \A b \in DOMAIN batchState :
            /\ batchState'[b] /= batchState[b] => <<batchState[b], batchState'[b]>> \in BatchMoves
            /\ batchState[b] \in Terminal =>
                 /\ batchState'[b] = batchState[b]
                 /\ attempts'[b] = attempts[b]
                 /\ modelCalls'[b] = modelCalls[b]]_vars
  /\ [](pc = "returned" => \A b \in DOMAIN batchState : batchState[b] \in Terminal)

\* a run in progress: the first batch succeeded at its second attempt, the
\* second waits for a retry, the third is not claimed yet
C23_Witness ==
  /\ pc = "running"
  /\ Len(batches) = 3
  /\ batchState[1] = "Succeeded"
  /\ attempts[1] = 2
  /\ batchState[2] = "RetryScheduled"
  /\ batchState[3] = "Pending"

\* the batches whose response has fewer usable lines than the batch has texts
\* and is not in the numbered format: it cannot be parsed into the expected count
Unparsed ==
  {b \in DOMAIN response :
     /\ response[b] /= NoResponse
     /\ ParseStrategy(Trim(response[b]), Len(batches[b].texts)) = 3}

\* C24: a batch whose response cannot be parsed into the expected count is
\* Succeeded on the attempt that got the response, without a retry: none of its
\* indices is in `failed`, the positions the response did not cover hold the
\* parse-error marker; the step that receives the response changes no slot of
\* another batch, no other batch's state and not the failed list.
C24_ParseShortfallSucceeds ==
  /\ [](\A b \in Unparsed :
          LET bt == batches[b]
              m == Len(UsableLines(Trim(response[b])))
          IN  /\ batchState[b] = "Succeeded"
              /\ \A i \in BatchIndices(bt) :
                   /\ i \notin FailedSet
                   /\ results[i].set
                   /\ ~IsFailedMarker(results[i].translatedText)
                   /\ i - bt.startIndex >= m =>
                        results[i].translatedText =
                          <<"[Translation error: Unable to parse response]">>)
  /\ [][\A b \in DOMAIN response :
          (pc = "running" /\ response[b] = NoResponse /\ response'[b] /= NoResponse) =>
            /\ batchState[b] = "InFlight"
            /\ batchState'[b] = "Succeeded"
            /\ attempts'[b] = attempts[b]
            /\ modelCalls'[b] = modelCalls[b]
            /\ failed' = failed
            /\ \A c \in DOMAIN batchState \ {b} : batchState'[c] = batchState[c]
            /\ \A i \in DOMAIN results \ BatchIndices(batches[b]) :
                 results'[i] = results[i]]_vars

\* a batch of two fragments got a one-line response at its first attempt: its
\* second slot holds the parse-error marker, while another batch failed
C24_Witness ==
  /\ \E b \in Unparsed :
       /\ Len(batches[b].texts) = 2
       /\ attempts[b] = 1
       /\ results[batches[b].startIndex + 1].translatedText =
            <<"[Translation error: Unable to parse response]">>
       /\ ~IsFailedMarker(results[batches[b].startIndex].translatedText)
  /\ \E c \in DOMAIN batchState : batchState[c] = "Failed"
  /\ Len(failed) = 1

\* C25: a run keeps what it had when translateBatch was called, whatever is
\* changed in the configuration store meanwhile: the worker count, the retry
\* limit, the batch partition, and the provider entry, so that either every
\* attempt of the run reaches the model or none does.
C25_RunKeepsItsSettings ==
  pc /= "idle" =>
    /\ Len(workers) = Min(concurrency, Len(batches))
    /\ batches = Batches(texts, batchSize)
    /\ \A b \in DOMAIN attempts : attempts[b] <= maxRetries + 1
    /\ \/ \A b \in DOMAIN attempts : modelCalls[b] = attempts[b]
       \/ \A b \in DOMAIN attempts : modelCalls[b] = 0

\* a trimmed line that is only a numeral, optionally followed by a period
BareNumeralText(t) ==
  LET d == RunLen(t, 1, Digits)
  IN  d >= 1 /\ (d = Len(t) \/ (d + 1 = Len(t) /\ t[Len(t)] = DOT))

\* the positions, among the lines of a response, of the lines the fallback keeps
KeptLines(text) ==
  LET split == SplitLines(text)
  IN  {j \in DOMAIN split : Trim(split[j]) /= <<>> /\ ~BareNumeralText(Trim(split[j]))}

\* the position of the i-th kept line
KeptLine(text, i) ==
  CHOOSE j \in KeptLines(text) :
    Cardinality({k \in KeptLines(text) : k <= j}) = i

\* C26: in the fallback (the numbered strategy not applying) no returned entry
\* is blank or a bare numeral with an optional period; when at least
\* expectedCount lines are kept, the entries are the first expectedCount kept
\* lines, trimmed, in document order.
C26_FallbackDropsBareNumerals ==
  (parserPc = "done" /\ ParseStrategy(raw, expectedCount) \in {2, 3}) =>
    /\ \A i \in DOMAIN parsed : parsed[i] /= <<>> /\ ~BareNumeralText(parsed[i])
    /\ Cardinality(KeptLines(raw)) >= expectedCount =>
         /\ ParseStrategy(raw, expectedCount) = 2
         /\ Len(parsed) = expectedCount
         /\ \A i \in 1..expectedCount :
              parsed[i] = Trim(SplitLines(raw)[KeptLine(raw, i)])

\* a response whose first line is a bare numeral and is skipped: the entries
\* returned are the two lines after it
C26_Witness ==
  /\ parserPc = "done"
  /\ ParseStrategy(raw, expectedCount) = 2
  /\ expectedCount = 2
  /\ BareNumeralText(Trim(SplitLines(raw)[1]))
  /\ KeptLines(raw) = {2, 3}
  /\ parsed[1] = Trim(SplitLines(raw)[2])

\* C27: every generateText call of an invocation is given the signal of the
\* controller that invocation created, also when another invocation starts on
\* the same client meanwhile; an invocation that starts, after cancel() or not,
\* starts with a controller that is not aborted.
C27_OwnSignal ==
  /\ [](\A r \in DOMAIN runs :
          \A k \in DOMAIN runs[r].calls : runs[r].calls[k] = runs[r].own)
  /\ [][\A r \in DOMAIN runs :
          (runs[r].pc = "idle" /\ runs'[r].pc = "running") =>
            controllers'[runs'[r].own] = "live"]_vars

\* C28: while the call is pending no terminal event was delivered; once it
\* settled exactly one terminal event was delivered, after every progress
\* event; a complete event carries the array the call returned, and after an
\* error event the call rejected with that error.
C28_OneTerminalEvent ==
  LET TerminalEvents == {k \in DOMAIN events : events[k].type \in {"complete", "error"}}
  IN
  /\ streamPc \in {"idle", "awaiting"} => TerminalEvents = {}
  /\ streamPc \in {"returned", "rejected"} =>
       /\ TerminalEvents = {Len(events)}
       /\ events[Len(events)].type = "complete" =>
            settled = [how |-> "returned", value |-> events[Len(events)].data]
       /\ events[Len(events)].type = "error" =>
            settled = [how |-> "rejected", value |-> events[Len(events)].data]

\* C29: right after resetToDefaults the configuration equals the shipped
\* default configuration, providers and their credentials, base URLs and model
\* lists included.
C29_ResetRestoresShipped ==
  lastOp.name = "resetToDefaults" => ThisConfig = ShippedConfig

\* C30: every provider that is built-in in the initial configuration is
\* present and not custom, removeProvider asked to remove one returns false,
\* and defaultProvider names a provider that exists.
C30_BuiltInsStay ==
  /\ \A id \in BuiltInIds :
       /\ HasKey(ThisProviders, id)
       /\ ~Entry(ThisProviders, id).isCustom
  /\ lastOp.name = "removeProvider" /\ lastOp.id \in BuiltInIds => ~lastOp.returned
  /\ HasKey(ThisProviders, ThisConfig.defaultProvider)

====
